---- MODULE Spec2Model ----
(***************************************************************************)
(* A model of package fontimg (src/fontimg.go).                            *)
(*                                                                         *)
(* Strings are sequences of one-character strings; a rune or byte is a     *)
(* one-character string, and the zero rune / zero byte is NUL.  There are  *)
(* four specifications, one for each part of the package:                  *)
(*   SpecTitle  titleCase (and peek) applied to bounded inputs             *)
(*   SpecBreak  breakLines applied to bounded buffers                      *)
(*   SpecLoad   concurrent Font.Load / Font.Rasterize calls on one record  *)
(*   SpecOpen   concurrent Open calls sharing the package-level once       *)
(***************************************************************************)
EXTENDS Integers, Sequences, FiniteSets, TLC

VARIABLES
    tc,       \* titleCase run: [pc, in, out, again]
    bl,       \* breakLines run: [pc, buf, size, lines, sizes]
    font,     \* the Font record shared by the Load callers
    fonce,    \* font.once: [done, locked]
    lthr,     \* per caller of Load/Rasterize: its position and locals
    lhist,    \* counters of the collaborator calls made on the record
    sfonts,   \* package variable sfonts
    once,     \* package variable once: [done, locked]
    dir,      \* the entries of the directory on disk
    othr,     \* per caller of Open: its position and locals
    ohist     \* counters of the calls, and what the last Open returned

vars == <<tc, bl, font, fonce, lthr, lhist, sfonts, once, dir, othr, ohist>>

-----------------------------------------------------------------------------
(* Runes *)

NUL == "NUL"

LowerSeq == <<"a","b","c","d","e","f","g","h","i","j","k","l","m",
              "n","o","p","q","r","s","t","u","v","w","x","y","z">>
UpperSeq == <<"A","B","C","D","E","F","G","H","I","J","K","L","M",
              "N","O","P","Q","R","S","T","U","V","W","X","Y","Z">>
DigitSeq == <<"0","1","2","3","4","5","6","7","8","9">>

Range(f) == {f[i] : i \in DOMAIN f}

LowerSet == Range(LowerSeq)
UpperSet == Range(UpperSeq)
DigitSet == Range(DigitSeq)

\* unicode.IsLower, unicode.IsUpper, unicode.IsLetter on the runes of the model
IsLower(c) == c \in LowerSet
IsUpper(c) == c \in UpperSet
IsLetter(c) == c \in LowerSet \cup UpperSet

\* unicode.IsSpace / the class \s on the runes of the model
IsSpace(c) == c \in {" ", "\t"}

IndexIn(seq, c) == CHOOSE i \in DOMAIN seq : seq[i] = c

\* the code point of a rune
Code(c) ==
    IF c \in LowerSet THEN 96 + IndexIn(LowerSeq, c)
    ELSE IF c \in UpperSet THEN 64 + IndexIn(UpperSeq, c)
    ELSE IF c \in DigitSet THEN 47 + IndexIn(DigitSeq, c)
    ELSE CASE c = NUL  -> 0
           [] c = "\t" -> 9
           [] c = "\n" -> 10
           [] c = " "  -> 32
           [] c = "-"  -> 45
           [] c = "."  -> 46
           [] c = "/"  -> 47
           [] c = "_"  -> 95

\* unicode.ToLower on one rune, strings.ToLower on a string
ToLowerRune(c) == IF c \in UpperSet THEN LowerSeq[IndexIn(UpperSeq, c)] ELSE c
ToLower(s) == [i \in DOMAIN s |-> ToLowerRune(s[i])]

\* s < t for Go strings: bytewise lexicographic order
RECURSIVE StrLess(_, _)
StrLess(s, t) ==
    IF t = <<>> THEN FALSE
    ELSE IF s = <<>> THEN TRUE
    ELSE IF Code(Head(s)) # Code(Head(t)) THEN Code(Head(s)) < Code(Head(t))
    ELSE StrLess(Tail(s), Tail(t))

HasSuffix(s, suf) ==
    /\ Len(suf) <= Len(s)
    /\ SubSeq(s, Len(s) - Len(suf) + 1, Len(s)) = suf

TrimSuffix(s, suf) ==
    IF HasSuffix(s, suf) THEN SubSeq(s, 1, Len(s) - Len(suf)) ELSE s

-----------------------------------------------------------------------------
(* titleCase *)

\* peek(r, i), i counted from 0 as in the source
peekCurrent(r, i) == IF 0 < i /\ i <= Len(r) THEN r[i] ELSE NUL
peek(r, i) == IF i < Len(r) THEN r[i + 1] ELSE NUL

RECURSIVE TrimLeft(_)
TrimLeft(s) == IF s # <<>> /\ IsSpace(Head(s)) THEN TrimLeft(Tail(s)) ELSE s

RECURSIVE TrimRight(_)
TrimRight(s) ==
    IF s # <<>> /\ IsSpace(s[Len(s)]) THEN TrimRight(SubSeq(s, 1, Len(s) - 1)) ELSE s

\* strings.TrimSpace
TrimSpace(s) == TrimRight(TrimLeft(s))

\* spaceRE.ReplaceAllString(s, " "): every maximal run of \s becomes one space
RECURSIVE CollapseFrom(_, _)
CollapseFrom(s, inRun) ==
    IF s = <<>> THEN <<>>
    ELSE IF IsSpace(Head(s))
         THEN (IF inRun THEN <<>> ELSE <<" ">>) \o CollapseFrom(Tail(s), TRUE)
         ELSE <<Head(s)>> \o CollapseFrom(Tail(s), FALSE)

KeepSpaces(s) == s
ReplaceSpaces(s) == CollapseFrom(s, FALSE)

\* the loop of titleCase from index i (0-based) on, with prev and s so far
RECURSIVE titleLoop(_, _, _, _)
titleLoop(r, i, prev, s) ==
    IF i >= Len(r) THEN s
    ELSE LET c0 == r[i + 1]
             camel == IsLower(prev) /\ IsUpper(c0)
             c == IF camel THEN c0 ELSE IF ~IsLetter(c0) THEN " " ELSE c0
             s1 == IF camel THEN Append(s, " ") ELSE s
             s2 == IF IsUpper(prev) /\ IsUpper(c) /\ IsLower(peek(r, i + 1))
                   THEN Append(s1, " ") ELSE s1
         IN titleLoop(r, i + 1, c, Append(s2, c))

titleCase(name) == ReplaceSpaces(TrimSpace(titleLoop(name, 0, NUL, <<>>)))

-----------------------------------------------------------------------------
(* breakLines *)

\* bytes.Split(buf, "\n"): the pieces between the newlines, n + 1 of them
RECURSIVE SplitFrom(_, _)
SplitFrom(buf, cur) ==
    IF buf = <<>> THEN <<cur>>
    ELSE IF Head(buf) = "\n" THEN <<cur>> \o SplitFrom(Tail(buf), <<>>)
    ELSE SplitFrom(Tail(buf), Append(cur, Head(buf)))

SplitLines(buf) == SplitFrom(buf, <<>>)

\* the length of the run of decimal digits of line that starts at index i
RECURSIVE DigitRun(_, _)
DigitRun(line, i) ==
    IF i <= Len(line) /\ line[i] \in DigitSet THEN 1 + DigitRun(line, i + 1) ELSE 0

\* sizeRE.FindSubmatch(line) # nil, for ^\x00([0-9]+)\x00(.*)$ on a line that
\* holds no newline
sizeREMatches(line) ==
    /\ Len(line) >= 3
    /\ line[1] = NUL
    /\ DigitRun(line, 2) >= 1
    /\ 2 + DigitRun(line, 2) <= Len(line)
    /\ line[2 + DigitRun(line, 2)] = NUL

\* the submatches m[1] and m[2]
Submatch1(line) == SubSeq(line, 2, 1 + DigitRun(line, 2))
Submatch2(line) == SubSeq(line, 3 + DigitRun(line, 2), Len(line))

\* the decimal digits of the largest int (64 bits): 9223372036854775807
MaxIntDigits == <<"9","2","2","3","3","7","2","0","3","6","8","5","4","7","7","5","8","0","7">>

RECURSIVE StripZeros(_)
StripZeros(ds) == IF ds # <<>> /\ Head(ds) = "0" THEN StripZeros(Tail(ds)) ELSE ds

\* strconv.Atoi(ds) returns a range error: the value does not fit an int
AtoiFails(ds) ==
    LET n == StripZeros(ds)
    IN \/ Len(n) > Len(MaxIntDigits)
       \/ Len(n) = Len(MaxIntDigits) /\ StrLess(MaxIntDigits, n)

\* the value strconv.Atoi(ds) returns when it returns no error
RECURSIVE AtoiValue(_)
AtoiValue(ds) ==
    IF ds = <<>> THEN 0
    ELSE 10 * AtoiValue(SubSeq(ds, 1, Len(ds) - 1)) + (Code(ds[Len(ds)]) - 48)

\* one iteration of the loop of breakLines: the text and the size of a line
lineTextKeepOnError(line) ==
    IF sizeREMatches(line) /\ ~AtoiFails(Submatch1(line)) THEN Submatch2(line) ELSE line
lineText(line) == IF sizeREMatches(line) THEN Submatch2(line) ELSE line

lineSize(line, size) ==
    IF sizeREMatches(line) /\ ~AtoiFails(Submatch1(line))
    THEN AtoiValue(Submatch1(line))
    ELSE size

\* breakLines(buf, size): the two slices it returns
breakLines(buf, size) ==
    LET ls == SplitLines(buf)
    IN [lines |-> [k \in DOMAIN ls |-> lineText(ls[k])],
        sizes |-> [k \in DOMAIN ls |-> lineSize(ls[k], size)]]

-----------------------------------------------------------------------------
(* Font records: New, NewFont, BestName *)

Nil == "nil"

\* a nil pointer to a record, or no value yet
None == [none |-> TRUE]

\* the index of the last "/" of p, 0 when there is none
LastSlash(p) ==
    IF \E i \in DOMAIN p : p[i] = "/" THEN CHOOSE i \in DOMAIN p :
           p[i] = "/" /\ \A j \in (i + 1)..Len(p) : p[j] # "/"
    ELSE 0

RECURSIVE TrimSlashes(_)
TrimSlashes(p) ==
    IF p # <<>> /\ p[Len(p)] = "/" THEN TrimSlashes(SubSeq(p, 1, Len(p) - 1)) ELSE p

\* filepath.Base
Base(p) ==
    IF p = <<>> THEN <<".">>
    ELSE LET q == TrimSlashes(p)
         IN IF q = <<>> THEN <<"/">> ELSE SubSeq(q, LastSlash(q) + 1, Len(q))

\* filepath.Ext: the suffix that starts at the last dot of the last element
Ext(p) ==
    LET dots == {i \in (LastSlash(p) + 1)..Len(p) : p[i] = "."}
    IN IF dots = {} THEN <<>>
       ELSE SubSeq(p, CHOOSE i \in dots : \A j \in dots : j <= i, Len(p))

\* filepath.Join(dir, name) of a clean directory name and an entry name
Join(d, name) == d \o <<"/">> \o name

\* titleCase(strings.TrimSuffix(filepath.Base(path), filepath.Ext(path)))
FamilyOfPath(path) == titleCase(TrimSuffix(Base(path), Ext(path)))

\* New(buf, path)
New(buf, path) ==
    [Buf |-> buf, Path |-> path, Family |-> FamilyOfPath(path),
     Name |-> <<>>, Style |-> <<>>, SampleText |-> <<>>]

\* NewFont(md)
NewFont(md) ==
    [Buf |-> Nil, Path |-> md.Filename,
     Family |-> IF md.Family = <<>> THEN FamilyOfPath(md.Filename) ELSE md.Family,
     Name |-> <<>>, Style |-> md.Style, SampleText |-> <<>>]

\* font.BestName()
BestName(f) == IF f.Name # <<>> THEN f.Name ELSE f.Family

-----------------------------------------------------------------------------
(* The values of the variables a specification does not use *)

Off == [pc |-> "off"]

TitleOff == tc = Off
BreakOff == bl = Off
LoadOff == font = Off /\ fonce = Off /\ lthr = Off /\ lhist = Off
OpenOff == sfonts = Off /\ once = Off /\ dir = Off /\ othr = Off /\ ohist = Off

-----------------------------------------------------------------------------
(* SpecTitle: titleCase applied once, and again to its own result *)

MaxLen == 5

TitleAlphabet == {"a", "b", "A", "B", "1", " "}

BoundedStrings(alphabet, n) == UNION {[1..k -> alphabet] : k \in 0..n}

MyFontName123 == <<"m","y","F","o","n","t","N","a","m","e","1","2","3">>
ABCWord == <<"A","B","C","W","o","r","d">>

TitleInputs ==
    BoundedStrings(TitleAlphabet, MaxLen)
        \cup {MyFontName123, ABCWord, <<"F","o","o","-","B","a","r","_","9",".","x">>}

InitTitle ==
    /\ tc \in {[pc |-> "start", in |-> s, out |-> <<>>, again |-> <<>>] : s \in TitleInputs}
    /\ BreakOff /\ LoadOff /\ OpenOff

TitleCaseCall ==
    /\ tc.pc = "start"
    /\ tc' = [tc EXCEPT !.pc = "once", !.out = titleCase(tc.in)]
    /\ UNCHANGED <<bl, font, fonce, lthr, lhist, sfonts, once, dir, othr, ohist>>

TitleCaseAgain ==
    /\ tc.pc = "once"
    /\ tc' = [tc EXCEPT !.pc = "twice", !.again = titleCase(tc.out)]
    /\ UNCHANGED <<bl, font, fonce, lthr, lhist, sfonts, once, dir, othr, ohist>>

NextTitle == TitleCaseCall \/ TitleCaseAgain

SpecTitle == InitTitle /\ [][NextTitle]_vars

C10_TitleCaseIdempotent ==
    /\ tc.pc = "twice" => tc.again = tc.out
    /\ tc.pc \in {"once", "twice"} =>
        /\ tc.out # <<>> => ~IsSpace(tc.out[1]) /\ ~IsSpace(tc.out[Len(tc.out)])
        /\ \A i \in 1..(Len(tc.out) - 1) : ~(IsSpace(tc.out[i]) /\ IsSpace(tc.out[i + 1]))
        /\ (\A i \in DOMAIN tc.in : ~IsLetter(tc.in[i])) => tc.out = <<>>

C10_Witness ==
    /\ tc.pc = "twice"
    /\ tc.in = <<"a", "A", "B", "b", "1">>
    /\ tc.out = <<"a", " ", "A", " ", "B", "b">>
    /\ tc.again = tc.out

-----------------------------------------------------------------------------
(* SpecBreak: breakLines applied to a buffer and a base size *)

MaxBuf == 6

BufAlphabet == {NUL, "\n", "7", "a"}

BaseSizes == {12, 48}

\* \x0064\x00Hello\nWorld
HelloWorld ==
    <<NUL,"6","4",NUL,"H","e","l","l","o","\n","W","o","r","l","d">>

\* a marker of twenty digits, and one of nineteen: neither value fits an int
TwentyNines == [i \in 1..20 |-> "9"]
UnparsableMarkers ==
    { <<NUL>> \o TwentyNines \o <<NUL, "x", "\n", "y">>,
      <<"a", "\n", NUL>> \o
          <<"9","2","2","3","3","7","2","0","3","6","8","5","4","7","7","5","8","0","8">>
          \o <<NUL, "b">> }

BreakInputs ==
    BoundedStrings(BufAlphabet, MaxBuf)
        \cup {HelloWorld, <<NUL,"0","0","7",NUL,"x","\n",NUL,"1","2",NUL>>}
        \cup UnparsableMarkers

InitBreak ==
    /\ bl \in {[pc |-> "start", buf |-> b, size |-> z, lines |-> <<>>, sizes |-> <<>>] :
                  b \in BreakInputs, z \in BaseSizes}
    /\ TitleOff /\ LoadOff /\ OpenOff

BreakLinesCall ==
    /\ bl.pc = "start"
    /\ LET r == breakLines(bl.buf, bl.size)
       IN bl' = [bl EXCEPT !.pc = "done", !.lines = r.lines, !.sizes = r.sizes]
    /\ UNCHANGED <<tc, font, fonce, lthr, lhist, sfonts, once, dir, othr, ohist>>

NextBreak == BreakLinesCall

SpecBreak == InitBreak /\ [][NextBreak]_vars

\* the positions of the newlines of buf, and the k-th of them (0 before the
\* first line, Len(buf) + 1 after the last)
NewlinesOf(buf) == {i \in 1..Len(buf) : buf[i] = "\n"}
NthNewline(buf, k) ==
    IF k = 0 THEN 0
    ELSE IF k > Cardinality(NewlinesOf(buf)) THEN Len(buf) + 1
    ELSE CHOOSE p \in NewlinesOf(buf) :
             Cardinality({q \in NewlinesOf(buf) : q < p}) = k - 1

\* the k-th newline-separated line of buf
InputLine(buf, k) == SubSeq(buf, NthNewline(buf, k - 1) + 1, NthNewline(buf, k) - 1)

\* the numbers n such that raw begins with NUL, n decimal digits, NUL
MarkerLengths(raw) ==
    {n \in 1..(Len(raw) - 2) :
        /\ raw[1] = NUL
        /\ raw[n + 2] = NUL
        /\ \A j \in 2..(n + 1) : raw[j] \in DigitSet}

DecimalValue(ds) ==
    LET Sum[i \in 0..Len(ds)] ==
            IF i = 0 THEN 0 ELSE Sum[i - 1] + (Code(ds[i]) - 48) * 10 ^ (Len(ds) - i)
    IN Sum[Len(ds)]

\* C8: breakLines returns two sequences of equal length with one element per
\* newline-separated line of the input, in order; a line that begins with a
\* marker NUL digits NUL has the marker removed and gets the digits' value as
\* its size, or the base size when the digits do not parse as an int; a line
\* without a leading marker is unchanged and gets the base size.  The buffer
\* \x0064\x00Hello\nWorld yields lines Hello, World with sizes 64, base.
C8_BreakLines ==
    bl.pc = "done" =>
        /\ Len(bl.lines) = Len(bl.sizes)
        /\ Len(bl.lines) = Cardinality(NewlinesOf(bl.buf)) + 1
        /\ \A k \in DOMAIN bl.lines :
              LET raw == InputLine(bl.buf, k)
              IN IF MarkerLengths(raw) = {}
                 THEN bl.lines[k] = raw /\ bl.sizes[k] = bl.size
                 ELSE \E n \in MarkerLengths(raw) :
                        LET ds == SubSeq(raw, 2, n + 1)
                        IN /\ raw = <<NUL>> \o ds \o <<NUL>> \o bl.lines[k]
                           /\ bl.sizes[k] =
                                  IF AtoiFails(ds) THEN bl.size ELSE DecimalValue(ds)
        /\ bl.buf = HelloWorld =>
              /\ bl.lines = << <<"H","e","l","l","o">>, <<"W","o","r","l","d">> >>
              /\ bl.sizes = <<64, bl.size>>

C8_Witness ==
    /\ bl.pc = "done"
    /\ bl.buf = HelloWorld
    /\ bl.size = 48
    /\ bl.sizes = <<64, 48>>

\* a marker whose digits do not parse is removed and the line gets the base size
C8_WitnessUnparsable ==
    /\ bl.pc = "done"
    /\ bl.buf \in UnparsableMarkers
    /\ bl.sizes = <<bl.size, bl.size>>

-----------------------------------------------------------------------------
(* SpecLoad: callers of Font.Load and Font.Rasterize on one Font record *)

\* the callers, and the calls of Load and Rasterize they make in all
NumProcs == 2
MaxCalls == 2

Procs == 1..NumProcs

Styles == {"FontRegular", "FontBold"}

ErrNotSet == "font.Buf and font.Path not set"
ErrParse == "font parse error"
ErrTemplate == "template error"

\* []byte values: one that parses as a font, one that does not
GoodBytes == "sfnt bytes"
BadBytes == "garbage bytes"

\* fontpkg.ParseStyle(v).String() on the subfamily names of the model
ParseStyleString(v) ==
    IF ToLower(v) = <<"b","o","l","d">> THEN <<"B","o","l","d">>
    ELSE IF ToLower(v) = <<"i","t","a","l","i","c">> THEN <<"I","t","a","l","i","c">>
    ELSE <<"R","e","g","u","l","a","r">>

\* the name tables of the fonts of the model: the strings of NameFontFamily,
\* NameFontSubfamily and NameSampleText, <<>> where the table has no such entry
NameTables ==
    { [family |-> <<"D","V">>, subfamily |-> <<"B","O","L","D">>, sample |-> <<>>],
      [family |-> <<>>, subfamily |-> <<>>, sample |-> <<"A","b","c">>],
      [family |-> <<"O","S">>, subfamily |-> <<"I","t","a","l","i","c">>, sample |-> <<"x">>] }

GoodBytesTable == [family |-> <<"D","V">>, subfamily |-> <<"B","O","L","D">>, sample |-> <<>>]

SomePath == <<"d","/","o","p","e","n","S","a","n","s","-","B","o","l","d",".","t","t","f">>

SomeMetadata ==
    [Filename |-> <<"/","f","/","D","e","j","a","V","u","S","a","n","s",".","t","t","f">>,
     Family |-> <<>>, Style |-> <<"R","e","g","u","l","a","r">>]

\* the Font records the callers share: built by New, or by NewFont
LoadFonts ==
    {New(b, q) : b \in {Nil, GoodBytes, BadBytes}, q \in {<<>>, SomePath}}
        \cup {NewFont(SomeMetadata)}

\* the switch of Load: which case it takes
loadCase(f) ==
    IF f.Buf # Nil THEN "buf" ELSE IF f.Path # <<>> THEN "path" ELSE "default"

\* the number of calls of ff.LoadFont / ff.LoadFontFile one call of Load makes
parserCallsCached(f) == IF fonce.done \/ loadCase(f) = "default" THEN 0 ELSE 1
parserCalls(f) == IF loadCase(f) = "default" THEN 0 ELSE 1

\* what ff.LoadFont(font.Buf, 0, style) / ff.LoadFontFile(font.Path, style) can
\* give: None for an error, else the name table of the parsed font.  Bytes parse
\* the same way every time; a file can be missing, unreadable, or replaced
\* between two calls.
ParseOutcomes(f) ==
    IF loadCase(f) = "buf"
    THEN (IF f.Buf = GoodBytes THEN {GoodBytesTable} ELSE {None})
    ELSE {None} \cup NameTables

\* the fields that the closure of font.once.Do writes
Meta(f) == [Name |-> f.Name, Style |-> f.Style, SampleText |-> f.SampleText]

\* sync.Once: Do returns without taking the mutex when done is set
onceClaimed(o) == o.done \/ o.locked
onceFinished(o) == o.done

\* sync.Once: under the mutex, f runs only if done is still unset
neverDone(o) == FALSE
doneUnderLock(o) == o.done

\* Rasterize: the test of the error of font.Load
neverFailed(r) == FALSE
rasterizeLoadFailed(r) == r.err # Nil

InitLoad ==
    /\ font \in LoadFonts
    /\ fonce = [done |-> FALSE, locked |-> FALSE]
    /\ lthr = [t \in Procs |->
                 [pc |-> "idle", op |-> "Load", ff |-> None, ret |-> None, img |-> None]]
    /\ lhist = [calls |-> 0, loads |-> 0, parses |-> 0, extracts |-> 0, complete |-> FALSE,
                okLoads |-> 0, failedFirst |-> FALSE, first |-> None,
                meta0 |-> [Name |-> <<>>, Style |-> font.Style, SampleText |-> <<>>]]
    /\ TitleOff /\ BreakOff /\ OpenOff

LoadUnchanged == UNCHANGED <<tc, bl, sfonts, once, dir, othr, ohist>>

\* the caller's state when Load returns r: Load's caller is done, Rasterize goes on
Returned(t, r) ==
    IF lthr[t].op = "Load"
    THEN [lthr[t] EXCEPT !.pc = "idle", !.ff = None, !.ret = r]
    ELSE [lthr[t] EXCEPT !.pc = "raster", !.ff = None, !.ret = r]

ReturnOK(t) ==
    /\ lthr' = [lthr EXCEPT ![t] =
                   Returned(t, [ff |-> lthr[t].ff, err |-> Nil, snap |-> Meta(font),
                                extracted |-> lhist.complete])]
    /\ lhist' = [lhist EXCEPT !.okLoads = @ + 1,
                              !.first = IF @ = None THEN Meta(font) ELSE @]

\* lines 135-148: the switch and the call of the parser
LoadBegin(t, op, style) ==
    /\ lthr[t].pc = "idle"
    /\ lhist.calls < MaxCalls
    /\ LET me == [lthr[t] EXCEPT !.op = op, !.ret = None, !.img = None]
           fail(e) == [ff |-> None, err |-> e, snap |-> Meta(font), extracted |-> lhist.complete]
           after(r) == IF op = "Load"
                       THEN [me EXCEPT !.ret = r]
                       ELSE [me EXCEPT !.pc = "raster", !.ret = r]
           counted == [lhist EXCEPT
                          !.calls = @ + 1,
                          !.loads = @ + (IF font.Buf # Nil \/ font.Path # <<>> THEN 1 ELSE 0),
                          !.parses = @ + parserCalls(font)]
       IN IF loadCase(font) = "default"
          THEN /\ lthr' = [lthr EXCEPT ![t] = after(fail(ErrNotSet))]
               /\ lhist' = [counted EXCEPT !.failedFirst = @ \/ lhist.extracts = 0]
          ELSE \E out \in ParseOutcomes(font) :
                 IF out = None
                 THEN /\ lthr' = [lthr EXCEPT ![t] = after(fail(ErrParse))]
                      /\ lhist' = [counted EXCEPT !.failedFirst = @ \/ lhist.extracts = 0]
                 ELSE /\ lthr' = [lthr EXCEPT ![t] =
                                     [me EXCEPT !.pc = "once",
                                                !.ff = [table |-> out, style |-> style]]]
                      /\ lhist' = counted
    /\ UNCHANGED <<font, fonce>>
    /\ LoadUnchanged

\* line 149, sync.Once.Do: done is set, Do returns at once and Load returns ff
OnceFast(t) ==
    /\ lthr[t].pc = "once"
    /\ onceFinished(fonce)
    /\ ReturnOK(t)
    /\ UNCHANGED <<font, fonce>>
    /\ LoadUnchanged

\* line 149, sync.Once.Do: done is unset, Do goes for the mutex
OnceSlow(t) ==
    /\ lthr[t].pc = "once"
    /\ ~onceFinished(fonce)
    /\ lthr' = [lthr EXCEPT ![t].pc = "lock"]
    /\ UNCHANGED <<font, fonce, lhist>>
    /\ LoadUnchanged

\* sync.Once.doSlow: takes the mutex, and runs the closure if done is unset
LockAcquire(t) ==
    /\ lthr[t].pc = "lock"
    /\ ~fonce.locked
    /\ fonce' = [fonce EXCEPT !.locked = TRUE]
    /\ lthr' = [lthr EXCEPT ![t].pc = IF doneUnderLock(fonce) THEN "unlock" ELSE "name"]
    /\ UNCHANGED <<font, lhist>>
    /\ LoadUnchanged

\* lines 150-153: the closure starts, and sets Name
ExtractName(t) ==
    /\ lthr[t].pc = "name"
    /\ LET v == lthr[t].ff.table.family
       IN font' = IF 0 < Len(v) THEN [font EXCEPT !.Name = v] ELSE font
    /\ lhist' = [lhist EXCEPT !.extracts = @ + 1]
    /\ lthr' = [lthr EXCEPT ![t].pc = "style"]
    /\ UNCHANGED fonce
    /\ LoadUnchanged

\* lines 154-156: the closure sets Style
ExtractStyle(t) ==
    /\ lthr[t].pc = "style"
    /\ LET v == lthr[t].ff.table.subfamily
       IN font' = IF 0 < Len(v) THEN [font EXCEPT !.Style = ParseStyleString(v)] ELSE font
    /\ lthr' = [lthr EXCEPT ![t].pc = "sample"]
    /\ UNCHANGED <<fonce, lhist>>
    /\ LoadUnchanged

\* lines 157-160: the closure sets SampleText and returns; Do sets done
ExtractSample(t) ==
    /\ lthr[t].pc = "sample"
    /\ LET v == lthr[t].ff.table.sample
       IN font' = IF 0 < Len(v) THEN [font EXCEPT !.SampleText = v] ELSE font
    /\ fonce' = [fonce EXCEPT !.done = TRUE]
    /\ lhist' = [lhist EXCEPT !.complete = TRUE]
    /\ lthr' = [lthr EXCEPT ![t].pc = "unlock"]
    /\ LoadUnchanged

\* sync.Once.doSlow releases the mutex; line 161: Load returns ff
Unlock(t) ==
    /\ lthr[t].pc = "unlock"
    /\ fonce' = [fonce EXCEPT !.locked = FALSE]
    /\ ReturnOK(t)
    /\ UNCHANGED font
    /\ LoadUnchanged

\* lines 177-214: Rasterize after font.Load returned
RasterizeRest(t) ==
    /\ lthr[t].pc = "raster"
    /\ LET done(i) == [lthr EXCEPT ![t] = [@ EXCEPT !.pc = "idle", !.img = i]]
       IN IF rasterizeLoadFailed(lthr[t].ret)
          THEN lthr' = done([image |-> None, err |-> lthr[t].ret.err])
          ELSE \E tplOK \in BOOLEAN :
                 lthr' = done(IF tplOK
                              THEN [image |-> [Name |-> BestName(font), Style |-> font.Style,
                                               SampleText |-> font.SampleText],
                                    err |-> Nil]
                              ELSE [image |-> None, err |-> ErrTemplate])
    /\ UNCHANGED <<font, fonce, lhist>>
    /\ LoadUnchanged

NextLoad ==
    \E t \in Procs :
        \/ \E op \in {"Load", "Rasterize"}, style \in Styles : LoadBegin(t, op, style)
        \/ OnceFast(t)
        \/ OnceSlow(t)
        \/ LockAcquire(t)
        \/ ExtractName(t)
        \/ ExtractStyle(t)
        \/ ExtractSample(t)
        \/ Unlock(t)
        \/ RasterizeRest(t)

SpecLoad == InitLoad /\ [][NextLoad]_vars

\* the callers whose last call of Load has returned ff and no error
LoadedOK == {t \in Procs : lthr[t].ret # None /\ lthr[t].ret.err = Nil}

\* the callers whose last call of Load has returned an error
LoadFailed == {t \in Procs : lthr[t].ret # None /\ lthr[t].ret.err # Nil}

\* C3: on one Font record the closure of font.once.Do runs at most once, and
\* exactly once as soon as one Load has returned successfully; every Load that
\* returns successfully returns after the closure has finished; and Name,
\* Style and SampleText as they are when a Load returns successfully are what
\* they were when the first one did, whatever the style and whatever the
\* parser found in the later call.
C3_ExtractOnce ==
    /\ lhist.extracts <= 1
    /\ lhist.okLoads > 0 => lhist.extracts = 1 /\ lhist.complete
    /\ \A t \in LoadedOK :
          /\ lthr[t].ret.extracted
          /\ lthr[t].ret.snap = lhist.first
    /\ lhist.first # None => Meta(font) = lhist.first

\* two callers have loaded the record, with different styles and from files
\* with different name tables, and both saw the same extracted fields
C3_Witness ==
    \E t, u \in LoadedOK :
        /\ lthr[t].ret.ff.style # lthr[u].ret.ff.style
        /\ lthr[t].ret.ff.table # lthr[u].ret.ff.table
        /\ lthr[t].ret.snap = lthr[u].ret.snap
        /\ lhist.extracts = 1

\* C4, as the claim states it: across the Load calls on one record the parser
\* (LoadFont / LoadFontFile) is called at most once.
C4_AsClaimed == lhist.parses <= 1

\* C4, amended: later Load calls reuse the extracted metadata (the extraction
\* runs at most once), but every Load call on a record with Buf or Path set
\* calls the parser again: once per such call.
C4_ParseEveryLoad ==
    /\ lhist.extracts <= 1
    /\ lhist.parses = lhist.loads
    /\ lhist.loads = IF font.Buf # Nil \/ font.Path # <<>> THEN lhist.calls ELSE 0

C4_Witness ==
    /\ lhist.okLoads = 2
    /\ lhist.parses = 2
    /\ lhist.extracts = 1

\* C7: a Load that fails returns no font family and an error: the not-set error
\* when the record has neither Buf nor Path, a parser error otherwise; Rasterize
\* then returns that error and no image; the failing call runs no extraction and
\* leaves the record and its once as they were, so that while no Load has got
\* past the parser the once is unused and the metadata is as constructed, and a
\* Load that succeeds after a failed one still does the extraction.
C7_FailedReturns ==
    /\ \A t \in LoadFailed :
          /\ lthr[t].ret.ff = None
          /\ lthr[t].ret.err \in {ErrNotSet, ErrParse}
          /\ lthr[t].ret.err = ErrNotSet <=> (font.Buf = Nil /\ font.Path = <<>>)
          /\ lthr[t].img # None =>
                lthr[t].img.image = None /\ lthr[t].img.err = lthr[t].ret.err
    /\ \A t \in Procs : (lthr[t].img # None /\ lthr[t].img.image # None) => t \in LoadedOK
    /\ (lhist.okLoads = 0 /\ \A t \in Procs : lthr[t].pc \in {"idle", "raster"}) =>
          /\ fonce = [done |-> FALSE, locked |-> FALSE]
          /\ lhist.extracts = 0
          /\ Meta(font) = lhist.meta0
    /\ (lhist.failedFirst /\ lhist.okLoads > 0) => lhist.extracts = 1 /\ fonce.done

C7_FailureStep(t) ==
    (lthr[t].ret = None /\ lthr'[t].ret # None /\ lthr'[t].ret.err # Nil) =>
        /\ font' = font
        /\ fonce' = fonce
        /\ lhist'.extracts = lhist.extracts

C7_LoadFailureTerminal ==
    /\ []C7_FailedReturns
    /\ [][\A t \in Procs : C7_FailureStep(t)]_vars

\* a Rasterize failed at the load step before any extraction, and a later Load
\* on the same record succeeded and did the extraction
C7_Witness ==
    /\ lhist.failedFirst
    /\ \E t \in LoadFailed : lthr[t].img # None /\ lthr[t].img.err = ErrParse
    /\ LoadedOK # {}
    /\ lhist.extracts = 1

-----------------------------------------------------------------------------
(* SpecOpen, SpecDir: callers of Open sharing the package's once and sfonts *)

MaxEntries == 2

\* the names Open is called with, and what os.Stat finds there; SansName is
\* no path on disk, and the indexes know it in style FontRegular only
PlainName == <<"R","E","A","D","M","E">>
PipeName == <<"p","i","p","e">>
DirName == <<"d">>
SansName == <<"s","a","n","s">>

OpenNames == {PlainName, PipeName, DirName, SansName}

\* os.Stat(name): "dir" and "file" (a regular file) and "other" (a named pipe,
\* a device) are there, "absent" is an error of Stat
StatKind(name) ==
    CASE name = DirName -> "dir"
      [] name = PlainName -> "file"
      [] name = PipeName -> "other"
      [] OTHER -> "absent"

\* directory entries: a name, and whether entry.IsDir()
Entry(n, d) == [name |-> n, isDir |-> d]

EntryPool ==
    { Entry(<<"b",".","t","t","f">>, FALSE),
      Entry(<<"A","-","x",".","O","T","F">>, FALSE),
      Entry(<<"a",".","w","o","f","f","2">>, FALSE),
      Entry(<<"a","_",".","W","o","f","f">>, FALSE),
      Entry(<<"m","y","F",".","s","f","n","t">>, FALSE),
      Entry(<<".","t","t","c">>, FALSE),
      Entry(<<"c",".","t","x","t">>, FALSE),
      Entry(<<"t","t","f">>, FALSE),
      Entry(<<"e",".","t","t","f",".","g","z">>, FALSE),
      Entry(<<"g",".","w","o","f","f","3">>, FALSE),
      Entry(<<"x",".","t","t","f">>, TRUE),
      Entry(<<"s","u","b">>, TRUE) }

\* the directory of SpecOpen
FixedDir ==
    { Entry(<<"b",".","t","t","f">>, FALSE),
      Entry(<<"c",".","t","x","t">>, FALSE),
      Entry(<<"A","-","x",".","O","T","F">>, FALSE) }

\* extRE.MatchString(s) for (?i)\.(ttf|ttc|otf|woff|woff2|sfnt)$: some dot of s
\* is followed, to the end of s, by one of the alternatives in any case
ExtAlternatives ==
    { <<"t","t","f">>, <<"t","t","c">>, <<"o","t","f">>, <<"w","o","f","f">>,
      <<"w","o","f","f","2">>, <<"s","f","n","t">> }

extREExactCase(s) ==
    \E i \in DOMAIN s : s[i] = "." /\ SubSeq(s, i + 1, Len(s)) \in ExtAlternatives
extREMatches(s) ==
    \E i \in DOMAIN s : s[i] = "." /\ ToLower(SubSeq(s, i + 1, Len(s))) \in ExtAlternatives

\* the system font index: metadata by name and style
Metadata(file, family, style) == [Filename |-> file, Family |-> family, Style |-> style]

\* *fontpkg.SystemFonts values: Nil, or a pointer to one of these indexes
SystemPtr == "system index"
GivenPtr == "caller's index"
PartialPtr == "unfinished index"

SystemIndex ==
    [fonts |->
       { [name |-> SansName, style |-> "FontRegular",
          md |-> Metadata(<<"/","f","/","D","e","j","a","V","u","S","a","n","s",".","t","t","f">>,
                          <<>>, <<"R","e","g","u","l","a","r">>)] }]

\* the index a caller passes as sysfonts
GivenIndex ==
    [fonts |->
       { [name |-> SansName, style |-> "FontRegular",
          md |-> Metadata(<<"/","o","p","t","/","s",".","t","t","f">>, <<"S">>,
                          <<"R","e","g","u","l","a","r">>)] }]

\* an index that FindSystemFonts left unfinished
PartialIndex == [fonts |-> {}]

\* the index a pointer points to
Deref(ptr) ==
    CASE ptr = SystemPtr -> SystemIndex
      [] ptr = GivenPtr -> GivenIndex
      [] ptr = PartialPtr -> PartialIndex

\* what FindSystemFonts can return: the index and a nil error, or an error
\* together with a nil or an unfinished index
ErrBuild == [kind |-> "FindSystemFonts", name |-> <<>>]
BuildOutcomes ==
    { [index |-> SystemPtr, err |-> None],
      [index |-> Nil, err |-> ErrBuild],
      [index |-> PartialPtr, err |-> ErrBuild] }

ErrReadDir(name) == [kind |-> "unable to open directory", name |-> name]
ErrLocate(name) == [kind |-> "unable to locate font", name |-> name]

\* sysfonts.Match(name, style) on a non-nil index: the metadata found, None
\* for !ok
IndexMatch(ptr, name, style) ==
    LET hits == {e \in Deref(ptr).fonts : e.name = name /\ e.style = style}
    IN IF hits = {} THEN None ELSE (CHOOSE e \in hits : TRUE).md

\* the sequences that hold each element of S once
Perms(S) ==
    {p \in [1..Cardinality(S) -> S] : \A i, j \in 1..Cardinality(S) : p[i] = p[j] => i = j}

\* less of sort.Slice, and the orders sort.Slice can leave (it is not stable)
familyLess(a, b) == StrLess(ToLower(a.Family), ToLower(b.Family))
SortedPerms(S) ==
    {p \in Perms(S) : \A i, j \in DOMAIN p : i < j => ~familyLess(p[j], p[i])}

\* the case of the switch of Open that os.Stat's answer selects
openCaseRegularOnly(st) ==
    IF st = "dir" THEN "dir" ELSE IF st = "file" THEN "file" ELSE "match"
openCase(st) ==
    IF st = "dir" THEN "dir" ELSE IF st \in {"file", "other"} THEN "file" ELSE "match"

\* the Fonts of the loop over the entries of a directory
scan(name, entries) ==
    {New(Nil, Join(name, e.name)) : e \in {x \in entries : ~x.isDir /\ extREMatches(x.name)}}

OpenIdle == [pc |-> "idle", name |-> <<>>, style |-> "FontRegular", sysfonts |-> Nil,
             argNil |-> FALSE, err |-> None, waited |-> FALSE, built |-> FALSE]

InitOpenWith(dirs, callers, names) ==
    /\ sfonts = Nil
    /\ once = [done |-> FALSE, locked |-> FALSE]
    /\ dir \in dirs
    /\ othr = [t \in Procs |-> OpenIdle]
    /\ ohist = [calls |-> 0, builds |-> 0, last |-> None, buildErr |-> FALSE,
                callers |-> callers, names |-> names]
    /\ TitleOff /\ BreakOff /\ LoadOff

InitOpen == InitOpenWith({FixedDir}, Procs, OpenNames)

\* one caller, any directory of up to MaxEntries entries
InitDir ==
    InitOpenWith({d \in SUBSET EntryPool : Cardinality(d) <= MaxEntries}, {1}, {DirName})

OpenUnchanged == UNCHANGED <<tc, bl, font, fonce, lthr, lhist, dir>>

\* lines 28-30: Open is called
OpenBegin(t, name, style, sys) ==
    /\ t \in ohist.callers
    /\ name \in ohist.names
    /\ othr[t].pc = "idle"
    /\ ohist.calls < MaxCalls
    /\ othr' = [othr EXCEPT ![t] =
                   [OpenIdle EXCEPT !.pc = IF sys = Nil THEN "once" ELSE "stat",
                                    !.name = name, !.style = style,
                                    !.sysfonts = sys, !.argNil = (sys = Nil)]]
    /\ ohist' = [ohist EXCEPT !.calls = @ + 1]
    /\ UNCHANGED <<sfonts, once>>
    /\ OpenUnchanged

\* line 31, sync.Once.Do: done is set, Do returns at once; lines 34-38 with err nil
PkgOnceFast(t) ==
    /\ othr[t].pc = "once"
    /\ onceFinished(once)
    /\ othr' = [othr EXCEPT ![t].pc = "stat", ![t].sysfonts = sfonts]
    /\ UNCHANGED <<sfonts, once, ohist>>
    /\ OpenUnchanged

\* line 31, sync.Once.Do: done is unset, Do goes for the mutex
PkgOnceSlow(t) ==
    /\ othr[t].pc = "once"
    /\ ~onceFinished(once)
    /\ othr' = [othr EXCEPT ![t].pc = "lock", ![t].waited = TRUE]
    /\ UNCHANGED <<sfonts, once, ohist>>
    /\ OpenUnchanged

\* sync.Once.doSlow: takes the mutex, and runs the closure if done is unset
PkgLock(t) ==
    /\ othr[t].pc = "lock"
    /\ ~once.locked
    /\ once' = [once EXCEPT !.locked = TRUE]
    /\ othr' = [othr EXCEPT ![t].pc = IF doneUnderLock(once) THEN "unlock" ELSE "build"]
    /\ UNCHANGED <<sfonts, ohist>>
    /\ OpenUnchanged

\* lines 31-33: the closure assigns sfonts and the caller's err; Do sets done
Build(t) ==
    /\ othr[t].pc = "build"
    /\ \E out \in BuildOutcomes :
          /\ sfonts' = out.index
          /\ othr' = [othr EXCEPT ![t].pc = "unlock", ![t].err = out.err, ![t].built = TRUE]
    /\ once' = [once EXCEPT !.done = TRUE]
    /\ ohist' = [ohist EXCEPT !.builds = @ + 1]
    /\ OpenUnchanged

\* what Open returns (a nil list is the empty sequence), with the facts about
\* the call that the claims are about
OpenResult(t, v, err, matched, panicked) ==
    [name |-> othr[t].name, style |-> othr[t].style, argNil |-> othr[t].argNil,
     sysfonts |-> othr[t].sysfonts, waited |-> othr[t].waited, built |-> othr[t].built,
     v |-> v, err |-> err, matched |-> matched, panicked |-> panicked]

\* sync.Once.doSlow releases the mutex; lines 34-38: the test of err
PkgUnlock(t) ==
    /\ othr[t].pc = "unlock"
    /\ once' = [once EXCEPT !.locked = FALSE]
    /\ IF othr[t].err # None
       THEN /\ othr' = [othr EXCEPT ![t] = OpenIdle]
            /\ ohist' = [ohist EXCEPT !.last = OpenResult(t, <<>>, othr[t].err, FALSE, FALSE),
                                      !.buildErr = TRUE]
       ELSE /\ othr' = [othr EXCEPT ![t].pc = "stat", ![t].sysfonts = sfonts]
            /\ UNCHANGED ohist
    /\ UNCHANGED sfonts
    /\ OpenUnchanged

\* lines 39-64: os.Stat and the switch, to the return of Open.  Match on a nil
\* index dereferences nil in the collaborator: the call panics, unless the
\* collaborator answers !ok.
Resolve(t) ==
    /\ othr[t].pc = "stat"
    /\ LET name == othr[t].name
           return(v, err, m, p) ==
               /\ othr' = [othr EXCEPT ![t] = OpenIdle]
               /\ ohist' = [ohist EXCEPT !.last = OpenResult(t, v, err, m, p)]
           located(v, m) ==
               IF Len(v) = 0 THEN return(<<>>, ErrLocate(name), m, FALSE)
               ELSE return(v, None, m, FALSE)
       IN CASE openCase(StatKind(name)) = "dir" ->
                 \/ return(<<>>, ErrReadDir(name), FALSE, FALSE)
                 \/ \E v \in SortedPerms(scan(name, dir)) : located(v, FALSE)
            [] openCase(StatKind(name)) = "file" ->
                 located(<<New(Nil, name)>>, FALSE)
            [] OTHER ->
                 IF othr[t].sysfonts = Nil
                 THEN \/ return(<<>>, None, TRUE, TRUE)
                      \/ located(<<>>, TRUE)
                 ELSE LET md == IndexMatch(othr[t].sysfonts, name, othr[t].style)
                      IN located(IF md = None THEN <<>> ELSE <<NewFont(md)>>, TRUE)
    /\ UNCHANGED <<sfonts, once>>
    /\ OpenUnchanged

NextOpen ==
    \E t \in Procs :
        \/ \E name \in OpenNames, style \in Styles, sys \in {Nil, GivenPtr} :
               OpenBegin(t, name, style, sys)
        \/ PkgOnceFast(t)
        \/ PkgOnceSlow(t)
        \/ PkgLock(t)
        \/ Build(t)
        \/ PkgUnlock(t)
        \/ Resolve(t)

SpecOpen == InitOpen /\ [][NextOpen]_vars

SpecDir == InitDir /\ [][NextOpen]_vars

\* what the call of Open that ended last has returned
OpenRets == {ohist.last} \ {None}

\* C1: whatever the number and the interleaving of the Open calls with a nil
\* sysfonts, FindSystemFonts runs at most once, and every such call that gets
\* past the once goes on with the index which that one run stored in sfonts.
C1_BuildOnce ==
    /\ ohist.builds <= 1
    /\ \A t \in Procs :
          (othr[t].argNil /\ othr[t].pc = "stat") =>
              ohist.builds = 1 /\ once.done /\ othr[t].sysfonts = sfonts
    /\ \A r \in OpenRets :
          (r.argNil /\ r.err # ErrBuild) => ohist.builds = 1 /\ r.sysfonts = sfonts

\* after the single build, a later call with nil sysfonts, which neither built
\* nor waited, has returned a match from the stored index
C1_Witness ==
    /\ ohist.calls >= 2
    /\ ohist.builds = 1
    /\ \E r \in OpenRets :
          /\ r.argNil /\ ~r.built /\ ~r.waited
          /\ r.sysfonts = SystemPtr
          /\ r.matched /\ Len(r.v) = 1

\* C2: when the build fails, the callers with nil sysfonts that were in once.Do
\* before the build was over all get the outcome of the caller that ran it: none
\* of them goes on to resolve the name while another has returned the build's
\* error.
C2_SameOutcome ==
    \A b \in Procs :
        (ohist.buildErr /\ othr[b].argNil /\ othr[b].waited) => othr[b].pc # "stat"

\* the names that are neither a file, nor a directory that holds a font file,
\* nor matched by the index the call has
FontSuffixes ==
    { <<".","t","t","f">>, <<".","t","t","c">>, <<".","o","t","f">>,
      <<".","w","o","f","f">>, <<".","w","o","f","f","2">>, <<".","s","f","n","t">> }

HasFontSuffix(n) == \E x \in FontSuffixes : HasSuffix(ToLower(n), x)

MatchOf(r) ==
    IF r.sysfonts = Nil THEN None ELSE IndexMatch(r.sysfonts, r.name, r.style)

NothingThere(r) ==
    /\ StatKind(r.name) \notin {"file", "other"}
    /\ ~(StatKind(r.name) = "dir" /\ \E e \in dir : ~e.isDir /\ HasFontSuffix(e.name))
    /\ MatchOf(r) = None

\* either a non-empty list and a nil error, or a nil list and an error
ListOrError(r) ==
    \/ Len(r.v) > 0 /\ r.err = None
    \/ r.v = <<>> /\ r.err # None

Scans == {r \in OpenRets : StatKind(r.name) = "dir" /\ r.err \in {None, ErrLocate(r.name)}}

OneFontPer(r, entries) ==
    /\ {f.Path : f \in Range(r.v)} = {Join(r.name, e.name) : e \in entries}
    /\ Len(r.v) = Cardinality(entries)
    /\ \A f \in Range(r.v) : f.Buf = Nil /\ f.Family = FamilyOfPath(f.Path)

ByFamily(r) ==
    \A i, j \in DOMAIN r.v :
        i < j => ~StrLess(ToLower(r.v[j].Family), ToLower(r.v[i].Family))

====
